---------------------------- MODULE Spec2Model ----------------------------
(***************************************************************************)
(* Model of adaptive::SegmentTracker                                       *)
(* (modules/demux/adaptive/SegmentTracker.cpp).                            *)
(*                                                                         *)
(* The tracker's fields are the variables current, next, chunkssequence,   *)
(* format and initializing.  The collaborators the tracker only consumes   *)
(* (representations and their playlists, adaptation logic, buffering       *)
(* logic, chunks) are modelled by the playlist windows in playlist and the   *)
(* answers each action draws from small sets.  Every operation is an       *)
(* operator from the tracker's fields, the playlists and the               *)
(* collaborators' answers to the new fields, the value returned and the    *)
(* events notified; the action applies it.  The remaining variables        *)
(* observe the calls and never influence the tracker.                      *)
(***************************************************************************)
EXTENDS Integers, Sequences, FiniteSets

(* ------------------------------ bounds -------------------------------- *)

\* Playlist times (segment slots) are 0..MaxSeg.
MaxSeg == 2

\* Representation "B" numbers the segment of slot t as t + NumberShift.
NumberShift == 1

\* The observer records at most MaxLog delivered units per sequence.
MaxLog == 4

(* ----------------------------- constants ------------------------------ *)

\* std::numeric_limits<uint64_t>::max(), the "unset" segment number.  Only
\* compared for equality by the tracker; any value above every number works.
UINT64_MAX == 255

Reps == {"A", "B"}

\* nullptr as a BaseRepresentation *
NullRep == "null"

Unknown == "Unknown"

Unsupported == "Unsupported"

KnownFormats == {"MP4"}

Formats == {Unknown, Unsupported} \cup KnownFormats

(* ------------------------------ Position ------------------------------ *)

Position(r, n) ==
    [rep |-> r, number |-> n, init_sent |-> FALSE, index_sent |-> FALSE]

PositionDefault == Position(NullRep, UINT64_MAX)

IsValid(p) == p.number # UINT64_MAX /\ p.rep # NullRep

IncrNoFlags(p) ==
    IF IsValid(p) THEN [p EXCEPT !.number = @ + 1] ELSE p

IncrIndexFirst(p) ==
    IF IsValid(p)
    THEN IF p.init_sent THEN [p EXCEPT !.number = @ + 1]
         ELSE IF p.index_sent THEN [p EXCEPT !.init_sent = TRUE]
         ELSE [p EXCEPT !.index_sent = TRUE]
    ELSE p

Incr(p) ==
    IF IsValid(p)
    THEN IF p.index_sent THEN [p EXCEPT !.number = @ + 1]
         ELSE IF p.init_sent THEN [p EXCEPT !.index_sent = TRUE]
         ELSE [p EXCEPT !.init_sent = TRUE]
    ELSE p

(* ----------------------------- ChunkEntry ----------------------------- *)

\* A SegmentChunk is identified by the segment it was opened from.
NullChunk == [kind |-> "null", rep |-> NullRep, number |-> UINT64_MAX]

SegmentChunk(k, r, n) == [kind |-> k, rep |-> r, number |-> n]

ChunkEntryDefault == [chunk |-> NullChunk, pos |-> PositionDefault]

ChunkEntry(c, p) == [chunk |-> c, pos |-> p]

EntryIsValid(e) == e.chunk # NullChunk /\ IsValid(e.pos)

(* ------------------------------- events ------------------------------- *)

Ev(t, a, b) == [type |-> t, a |-> a, b |-> b]

RepresentationSwitchEvent(prev, nxt) == Ev("RepresentationSwitch", prev, nxt)

RepresentationUpdatedEvent(r) == Ev("RepresentationUpdated", r, "-")

RepresentationUpdateFailedEvent(r) == Ev("RepresentationUpdateFailed", r, "-")

FormatChangedEvent(f) == Ev("FormatChange", f, "-")

SegmentGapEvent == Ev("SegmentGap", "-", "-")

DiscontinuityEvent == Ev("Discontinuity", "-", "-")

SegmentChangedEvent == Ev("SegmentChange", "-", "-")

PositionChangedEvent == Ev("PositionChange", "-", "-")

(* ---------------- collaborators: representation, playlist -------------- *)

\* A representation's playlist is the window [lo, hi] of available slots.
Windows == {w \in [lo : 0..MaxSeg, hi : 0..MaxSeg] : w.lo <= w.hi}

Base(r) == IF r = "B" THEN NumberShift ELSE 0

\* What a refresh (runLocalUpdates) can do to a playlist: nothing, publish
\* one more segment, or let the oldest segment expire.
RefreshOutcomes(w) ==
    {w} \cup (IF w.hi < MaxSeg THEN {[w EXCEPT !.hi = @ + 1]} ELSE {})
        \cup (IF w.lo < w.hi THEN {[w EXCEPT !.lo = @ + 1]} ELSE {})

\* The answers of needsUpdate / runLocalUpdates for a playlist w.
RefreshCases(w) ==
    {[needsUpdate |-> FALSE, updated |-> FALSE, win |-> w],
     [needsUpdate |-> TRUE, updated |-> FALSE, win |-> w]}
    \cup {[needsUpdate |-> TRUE, updated |-> TRUE, win |-> v] :
             v \in RefreshOutcomes(w)}

NoRefresh == [needsUpdate |-> FALSE, updated |-> FALSE, win |-> [lo |-> 0, hi |-> 0]]

\* getNextMediaSegment(number, &number, &gap): the segment number served, the
\* first available one when the requested one expired, UINT64_MAX for "no
\* segment" (requested number not published yet).
GetNextMediaSegment(w, r, n) ==
    IF n - Base(r) > w.hi THEN UINT64_MAX
    ELSE IF n - Base(r) < w.lo THEN w.lo + Base(r)
    ELSE n

\* translateSegmentNumber(number, from): the number, in r's numbering, of the
\* segment covering the same slot; UINT64_MAX when r does not have it.
TranslateSegmentNumber(w, r, n, from) ==
    IF n - Base(from) >= w.lo /\ n - Base(from) <= w.hi
    THEN n - Base(from) + Base(r)
    ELSE UINT64_MAX

\* getMinAheadTime(number): the playlist time after segment number.
GetMinAheadTime(w, r, n) ==
    IF n - Base(r) < w.hi THEN w.hi - (n - Base(r)) ELSE 0

\* getSegmentNumberByTime(time, &number)
GetSegmentNumberByTime(w, r, t) ==
    IF t >= w.lo /\ t <= w.hi THEN t + Base(r) ELSE UINT64_MAX


(* ------------------------ collaborators: chunk ------------------------- *)

\* What the tracker reads from a chunk when it delivers it: its declared
\* stream format, the format its leading bytes probe to and the format of
\* its content type.  A field the code does not read in a case is left at
\* Unknown.
FormatCases ==
    {[declared |-> f, probe |-> Unknown, mime |-> Unknown] :
        f \in Formats \ {Unknown}}
    \cup {[declared |-> Unknown, probe |-> f, mime |-> Unknown] :
        f \in KnownFormats}
    \cup {[declared |-> Unknown, probe |-> Unknown, mime |-> f] :
        f \in KnownFormats \cup {Unknown}}

\* toChunk's answer (opens) and, of a chunk that opened, its discontinuity
\* flag and formats.
ChunkCases ==
    {[opens |-> FALSE, discontinuity |-> FALSE,
      fc |-> [declared |-> Unknown, probe |-> Unknown, mime |-> Unknown]]}
    \cup {[opens |-> TRUE, discontinuity |-> d, fc |-> f] :
             d \in BOOLEAN, f \in FormatCases}

(* ------------------------------- state -------------------------------- *)

VARIABLES
    current,        \* SegmentTracker::current
    next,           \* SegmentTracker::next
    chunkssequence, \* SegmentTracker::chunkssequence
    format,         \* SegmentTracker::format
    initializing,   \* SegmentTracker::initializing
    playlist,       \* each representation's window of available slots
    afterReset,     \* observer: the last call was reset()
    logging,        \* observer: whether log, startPos, subst, full are kept;
                    \* when they are, every chunk declares the format MP4
                    \* and none carries a discontinuity
    log,            \* observer: units delivered since the position was set
    startPos,       \* observer: the position the log started from
    subst,          \* observer: a segment number was substituted since then
    full,           \* observer: every stage asked for since then had a segment
    since,          \* observer: "construction" or "reset" while nothing was
                    \* delivered since then, "delivery" afterwards
    lastProbed,     \* observer: format the last delivered chunk probed to
    seeked          \* observer: a seek was committed and no chunk delivered
                    \* since

vars == <<current, next, chunkssequence, format, initializing, playlist,
          afterReset, logging, log, startPos, subst, full, since, lastProbed,
          seeked>>

(* ---------------------------- prepareChunk ---------------------------- *)

\* Lines 282-283: switch_allowed after the test of the adaptation set's
\* alignment (aligned is isSegmentAligned()) and of the stages sent.
SwitchAllowedAsAsked(switch_allowed, pos, aligned) == switch_allowed

SwitchAllowed(switch_allowed, pos, aligned) ==
    switch_allowed /\ aligned /\ pos.init_sent /\ pos.index_sent

\* Line 303: the switch to segment n of r would go past the playlist w.
NeverPastPlaylist(w, r, n) == FALSE

PastPlaylist(w, r, n) == GetMinAheadTime(w, r, n) = 0

\* Lines 302-307: temp, of representation cand and translated number n, is
\* cancelled when it would go past cand's playlist w and replaces pos when
\* it is valid.
SwitchTo(pos, cand, n, w) ==
    IF n # UINT64_MAX /\ ~PastPlaylist(w, cand, n) THEN Position(cand, n)
    ELSE pos

\* Lines 294-300: the candidate's playlist refreshed to pl1, and the segment
\* number n1 translated again if it was not found.
Retry(pos, cand, n1, pl1) ==
    [pos |-> SwitchTo(pos, cand,
                      IF n1 = UINT64_MAX
                      THEN TranslateSegmentNumber(pl1[cand], cand,
                                                  pos.number, pos.rep)
                      ELSE n1,
                      pl1[cand]),
     playlist |-> pl1]

\* Lines 282-308: the representation switch of a continuing position: the
\* position to prepare and the playlists after the candidate's refresh.
\* in.aligned is isSegmentAligned(), in.cand the adaptation logic's answer,
\* in.refresh the candidate's answers to needsUpdate / runLocalUpdates.
Switch(switch_allowed, pos, pl, in) ==
    IF SwitchAllowed(switch_allowed, pos, in.aligned)
       /\ in.cand # NullRep /\ in.cand # pos.rep
    THEN Retry(pos, in.cand,
               TranslateSegmentNumber(pl[in.cand], in.cand, pos.number, pos.rep),
               IF in.refresh.needsUpdate /\ in.refresh.updated
               THEN [pl EXCEPT ![in.cand] = in.refresh.win] ELSE pl)
    ELSE [pos |-> pos, playlist |-> pl]

\* Lines 324-334: the index segment if it is not sent, needed and there,
\* else the media segment.  in.index is whether needsIndex() holds and
\* getIndexSegment() gives a segment.
IndexOrMedia(pos, in) ==
    IF ~pos.index_sent /\ in.index THEN [kind |-> "index", pos |-> pos]
    ELSE [kind |-> "media",
          pos |-> IF ~pos.index_sent THEN Incr(pos) ELSE pos]

\* Lines 317-334: the segment to open at pos and the position it is bound
\* to: the init segment, else the index segment, else the media segment.
\* in.init is whether getInitSegment() gives a segment.
StageSegment(pos, in) ==
    IF ~pos.init_sent /\ in.init THEN [kind |-> "init", pos |-> pos]
    ELSE IndexOrMedia(IF ~pos.init_sent THEN Incr(pos) ELSE pos, in)

\* Lines 336-347: the entry of the chunk opened from the segment st.
\* in.chunk.opens is whether toChunk gives a chunk.
Opened(st, in) ==
    IF in.chunk.opens
    THEN ChunkEntry(SegmentChunk(st.kind, st.pos.rep, st.pos.number), st.pos)
    ELSE ChunkEntryDefault

\* Lines 317-347: pos is the position of the media segment served.  gap is
\* the b_gap of lines 311-312, skipped whether a stage without segment was
\* passed over.
Staged(pl, gap, pos, in) ==
    [playlist |-> pl, gap |-> gap,
     skipped |-> StageSegment(pos, in).pos # pos,
     entry |-> Opened(StageSegment(pos, in), in)]

\* Lines 311-347: served is the number getNextMediaSegment answered for the
\* position sw.pos the switch left.
Served(sw, served, in) ==
    IF served = UINT64_MAX
    THEN [playlist |-> sw.playlist, gap |-> FALSE, skipped |-> FALSE,
          entry |-> ChunkEntryDefault]
    ELSE Staged(sw.playlist, served # sw.pos.number,
                [sw.pos EXCEPT !.number = served], in)

\* Lines 311-347 for the position and playlists sw the switch left.
AfterSwitch(sw, in) ==
    Served(sw,
           GetNextMediaSegment(sw.playlist[sw.pos.rep], sw.pos.rep,
                               sw.pos.number),
           in)

\* prepareChunk for a valid pos (getNextChunk passes no other).
PrepareChunk(switch_allowed, pos, pl, in) ==
    AfterSwitch(Switch(switch_allowed, pos, pl, in), in)

(* ---------------------------- getNextChunk ---------------------------- *)

HasEvent(evs, t) == \E i \in 1..Len(evs) : evs[i].type = t

CountEvent(evs, t) == Cardinality({i \in 1..Len(evs) : evs[i].type = t})

\* The tracker's fields as one value.
Tracker(c, n, q, f, i) ==
    [current |-> c, next |-> n, chunkssequence |-> q, format |-> f,
     initializing |-> i]

\* Lines 130-144: the fields after construction.
Constructed == Tracker(PositionDefault, PositionDefault, <<>>, Unknown, TRUE)

This == Tracker(current, next, chunkssequence, format, initializing)

\* Lines 365-369 when the queue is not empty: nothing is prepared.
NotPrepared(pl) ==
    [playlist |-> pl, gap |-> FALSE, skipped |-> FALSE,
     entry |-> ChunkEntryDefault]

\* The result of a getNextChunk call that returns at line 363 or 376.
Nothing(t, q, prep) ==
    [t |-> [t EXCEPT !.chunkssequence = q], playlist |-> prep.playlist,
     ret |-> NullChunk, events |-> <<>>, released |-> <<>>, prep |-> prep,
     entry |-> ChunkEntryDefault, probed |-> "-"]

\* Lines 420-421: the chunk's format is known and not the recorded one.
FormatKnown(chunkformat, f) == chunkformat # Unknown

FormatDiffers(chunkformat, f) == chunkformat # f /\ chunkformat # Unknown

\* Lines 420-425: the recorded format f and the event after a chunk of format
\* chunkformat.
FormatChange(chunkformat, f) ==
    IF FormatDiffers(chunkformat, f)
    THEN [format |-> chunkformat,
          events |-> <<FormatChangedEvent(chunkformat)>>]
    ELSE [format |-> f, events |-> <<>>]

\* Lines 404-418: the chunk's format, probed from its bytes if the chunk
\* declares none, and the recorded format f, which becomes the format of the
\* content type when probing finds none.  fc is what the chunk answers.
ProbeFormat(f, fc) ==
    IF fc.declared # Unknown
    THEN [chunkformat |-> fc.declared, probed |-> "-", format |-> f]
    ELSE [chunkformat |-> fc.probe, probed |-> fc.probe,
          format |-> IF fc.probe = Unknown THEN fc.mime ELSE f]

\* Lines 404-426 after the probe pf.
Resolved(pf) ==
    [probed |-> pf.probed,
     format |-> FormatChange(pf.chunkformat, pf.format).format,
     events |-> FormatChange(pf.chunkformat, pf.format).events]

\* Lines 404-426: the chunk's format, and the tracker's format after it.
ResolveFormat(f, fc) == Resolved(ProbeFormat(f, fc))

\* Line 381: b_switched for the entry at position pos.
SwitchedOnlyAtStart(t, pos) == t.current.rep = NullRep

Switched(t, pos) == t.next.rep # pos.rep \/ t.current.rep = NullRep

\* Line 399: the recorded format rules out a demuxer.
NeverUnsupported(f) == FALSE

IsUnsupported(f) == f = Unsupported

\* Lines 380 and 432-437: b_gap, forced to false while initializing.
GapNotSuppressed(init, requested, served) == requested # served

Gap(init, requested, served) ==
    IF init THEN FALSE ELSE requested # served

\* Lines 451-452: the position next is left at after the chunk at pos was
\* delivered, with or without a gap.
NextAlwaysAdvanced(pos, b_gap) == Incr(pos)

NextAfter(pos, b_gap) == IF b_gap THEN pos ELSE Incr(pos)

\* Lines 382-387: b_discontinuity of a chunk whose flag is discontinuity.
DiscontinuityUnsuppressed(t, discontinuity) ==
    discontinuity /\ IsValid(t.current)

Discontinuity(t, discontinuity) ==
    discontinuity /\ IsValid(t.current) /\ t.current.number # t.next.number

\* Lines 403-454: the chunk of entry chunk is returned.  evSwitch are the
\* events notified so far, rf the resolved format, b_gap and
\* b_discontinuity the flags after lines 432-437 and 382-387.
Returned(prep, q, chunk, evSwitch, rf, b_gap, b_discontinuity) ==
    [t |-> Tracker(chunk.pos, NextAfter(chunk.pos, b_gap), Tail(q),
                   rf.format, FALSE),
     playlist |-> prep.playlist,
     ret |-> chunk.chunk,
     events |-> evSwitch \o rf.events
                \o (IF b_gap THEN <<SegmentGapEvent>> ELSE <<>>)
                \o (IF b_discontinuity THEN <<DiscontinuityEvent>> ELSE <<>>)
                \o <<SegmentChangedEvent>>,
     released |-> <<>>,
     prep |-> prep, entry |-> chunk, probed |-> rf.probed]

\* Lines 390-394: initializing after the test of b_switched.
InitializingKept(b_switched, init) == init

Initializing(b_switched, init) == b_switched \/ init

\* Lines 379-454 for the valid entry chunk at the front of the queue q.
Front(t, prep, q, chunk, b_switched, in) ==
    IF IsUnsupported(t.format)
    THEN [t |-> Tracker(chunk.pos, chunk.pos, q, t.format,
                        Initializing(b_switched, t.initializing)),
          playlist |-> prep.playlist,
          ret |-> NullChunk,
          events |-> IF b_switched
                     THEN <<RepresentationSwitchEvent(t.next.rep, chunk.pos.rep)>>
                     ELSE <<>>,
          released |-> <<>>,
          prep |-> prep, entry |-> chunk, probed |-> "-"]
    ELSE Returned(prep, q, chunk,
                  IF b_switched
                  THEN <<RepresentationSwitchEvent(t.next.rep, chunk.pos.rep)>>
                  ELSE <<>>,
                  ResolveFormat(t.format, in.chunk.fc),
                  Gap(Initializing(b_switched, t.initializing), t.next.number,
                      chunk.pos.number),
                  Discontinuity(t, in.chunk.discontinuity))

\* Line 375: delete chunk.chunk, which deletes nothing for nullptr.
Deleted(e) == IF e.chunk # NullChunk THEN <<e.chunk>> ELSE <<>>

\* Lines 371-454 for the queue q.
QueuedKeepingInvalid(t, prep, q, in) ==
    IF ~EntryIsValid(Head(q)) THEN Nothing(t, q, prep)
    ELSE Front(t, prep, q, Head(q), Switched(t, Head(q).pos), in)

Queued(t, prep, q, in) ==
    IF ~EntryIsValid(Head(q))
    THEN [Nothing(t, Tail(q), prep) EXCEPT !.released = Deleted(Head(q))]
    ELSE Front(t, prep, q, Head(q), Switched(t, Head(q).pos), in)

\* Lines 365-369: the queue after the entry prepareChunk gave is pushed,
\* which it is when the queue is empty.
EnqueueAlways(q, entry) == Append(q, entry)

Enqueue(q, entry) == IF q = <<>> THEN <<entry>> ELSE q

\* Lines 365-454: prep is what prepareChunk gave, if it was called.
Prepared(t, prep, in) ==
    Queued(t, prep, Enqueue(t.chunkssequence, prep.entry), in)

\* getNextChunk(switch_allowed, connManager) on the tracker t and the
\* playlists pl, with the collaborators' answers in: the new values of the
\* fields, the chunk returned (NullChunk for nullptr) and the events
\* notified, in order.
GetNextChunkOn(t, pl, switch_allowed, in) ==
    IF ~IsValid(t.next) THEN Nothing(t, t.chunkssequence, NotPrepared(pl))
    ELSE Prepared(t,
                  IF t.chunkssequence = <<>>
                  THEN PrepareChunk(switch_allowed, t.next, pl, in)
                  ELSE NotPrepared(pl),
                  in)

(* ------------------- start position, seek and reset ------------------- *)

\* getStartPosition(): in.rep is the adaptation logic's answer, in.refresh
\* the representation's answers to needsUpdate / runLocalUpdates, in.start
\* the buffering logic's start segment number.
GetStartPosition(pl, in) ==
    IF in.rep = NullRep
    THEN [pos |-> PositionDefault, playlist |-> pl, events |-> <<>>]
    ELSE LET b_updated == in.refresh.needsUpdate /\ in.refresh.updated
         IN  [pos |-> Position(in.rep, in.start),
              playlist |-> IF b_updated
                           THEN [pl EXCEPT ![in.rep] = in.refresh.win] ELSE pl,
              events |-> IF b_updated
                         THEN <<RepresentationUpdatedEvent(in.rep)>> ELSE <<>>]

\* setStartPosition()
SetStartPositionOn(t, pl, in) ==
    IF IsValid(t.next)
    THEN [t |-> t, playlist |-> pl, events |-> <<>>, result |-> TRUE]
    ELSE LET sp == GetStartPosition(pl, in)
         IN  [t |-> IF IsValid(sp.pos) THEN [t EXCEPT !.next = sp.pos] ELSE t,
              playlist |-> sp.playlist, events |-> sp.events,
              result |-> IsValid(sp.pos)]

\* resetChunksSequence()
ResetChunksSequence(q) == <<>>

\* Lines 352-356: the chunks resetChunksSequence deletes.
ReleasedNothing(q) == <<>>

Released(q) ==
    [i \in 1..Len(SelectSeq(q, LAMBDA e : e.chunk # NullChunk)) |->
        SelectSeq(q, LAMBDA e : e.chunk # NullChunk)[i].chunk]

\* setPosition(pos, restarted)
SetPositionKeepingCurrent(t, pos, restarted) ==
    [t |-> Tracker(t.current, pos,
                   ResetChunksSequence(t.chunkssequence), t.format,
                   IF restarted THEN TRUE ELSE t.initializing),
     events |-> <<PositionChangedEvent>>,
     released |-> Released(t.chunkssequence)]

SetPositionOn(t, pos, restarted) ==
    [t |-> Tracker(PositionDefault, pos,
                   ResetChunksSequence(t.chunkssequence), t.format,
                   IF restarted THEN TRUE ELSE t.initializing),
     events |-> <<PositionChangedEvent>>,
     released |-> Released(t.chunkssequence)]

\* Lines 480-486 of setPositionByTime on representation r, with the
\* playlists pl and the events ev after its refresh.
SeekInCommitting(t, pl, ev, r, n, restarted, tryonly) ==
    IF n = UINT64_MAX
    THEN [t |-> t, playlist |-> pl, events |-> ev, released |-> <<>>,
          result |-> FALSE]
    ELSE [t |-> SetPositionOn(t, Position(r, n), restarted).t,
          playlist |-> pl,
          events |-> ev \o SetPositionOn(t, Position(r, n), restarted).events,
          released |-> SetPositionOn(t, Position(r, n), restarted).released,
          result |-> TRUE]

SeekIn(t, pl, ev, r, n, restarted, tryonly) ==
    IF n = UINT64_MAX
    THEN [t |-> t, playlist |-> pl, events |-> ev, released |-> <<>>,
          result |-> FALSE]
    ELSE IF tryonly
    THEN [t |-> t, playlist |-> pl, events |-> ev, released |-> <<>>,
          result |-> TRUE]
    ELSE [t |-> SetPositionOn(t, Position(r, n), restarted).t,
          playlist |-> pl,
          events |-> ev \o SetPositionOn(t, Position(r, n), restarted).events,
          released |-> SetPositionOn(t, Position(r, n), restarted).released,
          result |-> TRUE]

\* Lines 463-486 of setPositionByTime on representation r.
SeekOnIgnoringFailure(t, pl, r, time, restarted, tryonly, in) ==
    IF r = NullRep
    THEN [t |-> t, playlist |-> pl, events |-> <<>>, released |-> <<>>,
          result |-> FALSE]
    ELSE SeekIn(t, pl, <<>>, r, GetSegmentNumberByTime(pl[r], r, time),
                restarted, tryonly)

SeekOn(t, pl, r, time, restarted, tryonly, in) ==
    IF r = NullRep \/ (in.refresh.needsUpdate /\ ~in.refresh.updated)
    THEN [t |-> t, playlist |-> pl, events |-> <<>>, released |-> <<>>,
          result |-> FALSE]
    ELSE IF in.refresh.needsUpdate
    THEN SeekIn(t, [pl EXCEPT ![r] = in.refresh.win],
                <<RepresentationUpdatedEvent(r)>>, r,
                GetSegmentNumberByTime(in.refresh.win, r, time),
                restarted, tryonly)
    ELSE SeekIn(t, pl, <<>>, r, GetSegmentNumberByTime(pl[r], r, time),
                restarted, tryonly)

\* setPositionByTime(time, restarted, tryonly): in.rep is the adaptation
\* logic's answer when there is no current representation.
SetPositionByTimeOn(t, pl, time, restarted, tryonly, in) ==
    SeekOn(t, pl,
           IF IsValid(Position(t.current.rep, t.current.number))
           THEN t.current.rep ELSE in.rep,
           time, restarted, tryonly, in)

\* reset()
ResetKeepingFormat(t) ==
    [t |-> Tracker(PositionDefault, PositionDefault,
                   ResetChunksSequence(t.chunkssequence), t.format, TRUE),
     events |-> <<RepresentationSwitchEvent(t.current.rep, NullRep)>>,
     released |-> Released(t.chunkssequence)]

ResetOn(t) ==
    [t |-> Tracker(PositionDefault, PositionDefault,
                   ResetChunksSequence(t.chunkssequence), Unknown, TRUE),
     events |-> <<RepresentationSwitchEvent(t.current.rep, NullRep)>>,
     released |-> Released(t.chunkssequence)]

\* updateSelected(): in.refresh are the current representation's answers to
\* needsUpdate / runLocalUpdates, in.canNoLongerUpdate its last answer.
UpdateSelectedOn(t, pl, in) ==
    IF t.current.rep = NullRep THEN [playlist |-> pl, events |-> <<>>]
    ELSE LET b_updated == in.refresh.needsUpdate /\ in.refresh.updated
         IN  [playlist |-> IF b_updated
                           THEN [pl EXCEPT ![t.current.rep] = in.refresh.win]
                           ELSE pl,
              events |-> (IF b_updated
                          THEN <<RepresentationUpdatedEvent(t.current.rep)>>
                          ELSE <<>>)
                         \o (IF in.canNoLongerUpdate
                             THEN <<RepresentationUpdateFailedEvent(t.current.rep)>>
                             ELSE <<>>)]

(* ------------------------ collaborators' answers ----------------------- *)

\* The refresh answers of representation r (none when r is null).
RefreshCasesOf(pl, r) ==
    IF r = NullRep THEN {NoRefresh} ELSE RefreshCases(pl[r])

\* The start segment numbers the buffering logic can answer for r.
StartNumbers(pl, r, rc) ==
    IF r = NullRep THEN {UINT64_MAX}
    ELSE LET w == IF rc.needsUpdate /\ rc.updated THEN rc.win ELSE pl[r]
         IN  {n + Base(r) : n \in w.lo..w.hi} \cup {UINT64_MAX}

\* The answers setStartPosition reads on tracker t.
SetStartPositionInputs(t, pl) ==
    UNION { UNION { {[rep |-> r, refresh |-> rc, start |-> n] :
                        n \in StartNumbers(pl, r, rc)} :
                    rc \in RefreshCasesOf(pl, r) } :
            r \in IF IsValid(t.next) THEN {NullRep} ELSE Reps \cup {NullRep} }

\* The switch_allowed argument with the adaptation set's and the adaptation
\* logic's answers that prepareChunk reads at position p: the logic is only
\* asked when the switch is allowed, the candidate only refreshed when it
\* is another representation.
SwitchCases(p, pl) ==
    UNION { UNION { {[switch_allowed |-> sa, aligned |-> al, cand |-> c,
                      refresh |-> rc] :
                        rc \in IF c \in {NullRep, p.rep} THEN {NoRefresh}
                               ELSE RefreshCasesOf(pl, c)} :
                    c \in IF sa /\ al /\ p.init_sent /\ p.index_sent
                          THEN Reps \cup {NullRep} ELSE {NullRep} } :
            sa \in BOOLEAN, al \in BOOLEAN }

\* The same, whatever the code reads.
AllSwitchCases(pl) ==
    UNION { {[switch_allowed |-> sa, aligned |-> al, cand |-> c,
              refresh |-> rc] : rc \in RefreshCasesOf(pl, c)} :
            sa \in BOOLEAN, al \in BOOLEAN, c \in Reps \cup {NullRep} }

\* The representation's answers for the init and index segments that
\* prepareChunk reads at position p.
StageCases(p) ==
    IF ~p.init_sent
    THEN {[init |-> TRUE, index |-> FALSE], [init |-> FALSE, index |-> TRUE],
          [init |-> FALSE, index |-> FALSE]}
    ELSE IF ~p.index_sent
    THEN {[init |-> FALSE, index |-> TRUE], [init |-> FALSE, index |-> FALSE]}
    ELSE {[init |-> FALSE, index |-> FALSE]}

Answers(sc, st, ck) ==
    [switch_allowed |-> sc.switch_allowed, aligned |-> sc.aligned,
     cand |-> sc.cand, refresh |-> sc.refresh,
     init |-> st.init, index |-> st.index, chunk |-> ck]

NoAnswers ==
    Answers([switch_allowed |-> FALSE, aligned |-> TRUE, cand |-> NullRep,
             refresh |-> NoRefresh],
            [init |-> FALSE, index |-> FALSE],
            [opens |-> FALSE, discontinuity |-> FALSE,
             fc |-> [declared |-> Unknown, probe |-> Unknown, mime |-> Unknown]])

\* The chunks of a run: all of them or, in a run whose delivered units
\* are logged, those that declare one known format and no discontinuity.
ChunkCasesOf(restricted) ==
    IF restricted
    THEN {ck \in ChunkCases : ~ck.discontinuity
                              /\ (ck.opens => ck.fc.declared = "MP4")}
    ELSE ChunkCases

\* The argument and answers getNextChunk reads on tracker t: none when it
\* returns at once, the chunk's alone when a chunk is already queued.
GetNextChunkInputs(t, pl, restricted) ==
    IF ~IsValid(t.next) THEN {NoAnswers}
    ELSE IF t.chunkssequence # <<>>
    THEN {[NoAnswers EXCEPT !.chunk = ck] : ck \in ChunkCasesOf(restricted)}
    ELSE UNION { UNION { {Answers(sc, st, ck) : ck \in ChunkCasesOf(restricted)} :
                         st \in StageCases(
                                  Switch(sc.switch_allowed, t.next, pl, sc).pos) } :
                 sc \in SwitchCases(t.next, pl) }

\* The positions a caller passes to setPosition.
SetPositionInputs ==
    UNION { {[pos |-> Position(r, n + Base(r)), restarted |-> b] :
                n \in 0..MaxSeg, b \in BOOLEAN} : r \in Reps }

\* The arguments of setPositionByTime and the answers it reads on tracker t.
SetPositionByTimeInputs(t, pl) ==
    UNION { UNION { {[time |-> time, restarted |-> restarted,
                      tryonly |-> tryonly, rep |-> r, refresh |-> rc] :
                        time \in 0..MaxSeg, restarted \in BOOLEAN,
                        tryonly \in BOOLEAN} :
                    rc \in RefreshCasesOf(pl, IF IsValid(t.current)
                                              THEN t.current.rep ELSE r) } :
            r \in IF IsValid(t.current) THEN {NullRep}
                  ELSE Reps \cup {NullRep} }

UpdateSelectedInputs(t, pl) ==
    {[refresh |-> rc, canNoLongerUpdate |-> gone] :
        rc \in RefreshCasesOf(pl, t.current.rep), gone \in BOOLEAN}

(* ------------------------------ actions ------------------------------- *)

Init ==
    /\ current = Constructed.current
    /\ next = Constructed.next
    /\ chunkssequence = Constructed.chunkssequence
    /\ format = Constructed.format
    /\ initializing = Constructed.initializing
    /\ playlist \in [Reps -> Windows]
    /\ afterReset = FALSE
    /\ logging = FALSE
    /\ log = <<>>
    /\ startPos = PositionDefault
    /\ subst = FALSE
    /\ full = TRUE
    /\ since = "construction"
    /\ lastProbed = "-"
    /\ seeked = FALSE

SetTracker(t) ==
    /\ current' = t.current
    /\ next' = t.next
    /\ chunkssequence' = t.chunkssequence
    /\ format' = t.format
    /\ initializing' = t.initializing

\* The observer starts a new sequence of delivered units at position p.
StartLog(p) ==
    /\ log' = <<>>
    /\ startPos' = IF logging THEN p ELSE startPos
    /\ subst' = FALSE
    /\ full' = TRUE

\* setStartPosition() gave res.
SetStartPositionDone(res) ==
    /\ SetTracker(res.t)
    /\ playlist' = res.playlist
    /\ afterReset' = FALSE
    /\ IF ~IsValid(next) /\ res.result
       THEN StartLog(res.t.next)
       ELSE UNCHANGED <<log, startPos, subst, full>>
    /\ UNCHANGED <<logging, since, lastProbed, seeked>>

SetStartPosition ==
    \E in \in SetStartPositionInputs(This, playlist) :
        SetStartPositionDone(SetStartPositionOn(This, playlist, in))

\* getNextChunk() gave res.
GetNextChunkDone(res) ==
    /\ SetTracker(res.t)
    /\ playlist' = res.playlist
    /\ afterReset' = FALSE
    /\ log' = IF logging /\ res.ret # NullChunk /\ Len(log) < MaxLog
              THEN Append(log, res.ret) ELSE log
    /\ subst' = (subst \/ (logging /\ EntryIsValid(res.entry)
                           /\ res.prep.gap))
    /\ full' = (full /\ ~(logging /\ EntryIsValid(res.entry)
                          /\ res.prep.skipped))
    /\ since' = IF res.ret # NullChunk THEN "delivery" ELSE since
    /\ lastProbed' = IF res.ret # NullChunk THEN res.probed ELSE lastProbed
    /\ seeked' = (seeked /\ res.ret = NullChunk)
    /\ UNCHANGED <<logging, startPos>>

GetNextChunk ==
    \E in \in GetNextChunkInputs(This, playlist, logging) :
        GetNextChunkDone(GetNextChunkOn(This, playlist, in.switch_allowed, in))

\* setPosition() gave res.
SetPositionDone(res) ==
    /\ SetTracker(res.t)
    /\ afterReset' = FALSE
    /\ StartLog(res.t.next)
    /\ seeked' = TRUE
    /\ UNCHANGED <<playlist, logging, since, lastProbed>>

SetPosition ==
    \E in \in SetPositionInputs :
        SetPositionDone(SetPositionOn(This, in.pos, in.restarted))

\* setPositionByTime(time, restarted, tryonly) gave res.
SetPositionByTimeDone(res, tryonly) ==
    /\ SetTracker(res.t)
    /\ playlist' = res.playlist
    /\ afterReset' = FALSE
    /\ IF res.result /\ ~tryonly
       THEN StartLog(res.t.next)
       ELSE UNCHANGED <<log, startPos, subst, full>>
    /\ seeked' = (seeked \/ (res.result /\ ~tryonly))
    /\ UNCHANGED <<logging, since, lastProbed>>

SetPositionByTime ==
    \E in \in SetPositionByTimeInputs(This, playlist) :
        SetPositionByTimeDone(
            SetPositionByTimeOn(This, playlist, in.time, in.restarted,
                                in.tryonly, in),
            in.tryonly)

\* reset() gave res.
ResetDone(res) ==
    /\ SetTracker(res.t)
    /\ afterReset' = TRUE
    /\ StartLog(res.t.next)
    /\ since' = "reset"
    /\ lastProbed' = "-"
    /\ seeked' = FALSE
    /\ UNCHANGED <<playlist, logging>>

Reset == ResetDone(ResetOn(This))

UpdateSelected ==
    \E in \in UpdateSelectedInputs(This, playlist) :
        /\ playlist' = UpdateSelectedOn(This, playlist, in).playlist
        /\ afterReset' = FALSE
        /\ UNCHANGED <<current, next, chunkssequence, format, initializing,
                       logging, log, startPos, subst, full, since,
                       lastProbed, seeked>>

Next ==
    \/ SetStartPosition
    \/ GetNextChunk
    \/ SetPosition
    \/ SetPositionByTime
    \/ Reset
    \/ UpdateSelected

Spec == Init /\ [][Next]_vars

\* The same program with the observer's log of delivered units kept.
InitLog ==
    /\ current = Constructed.current
    /\ next = Constructed.next
    /\ chunkssequence = Constructed.chunkssequence
    /\ format = Constructed.format
    /\ initializing = Constructed.initializing
    /\ playlist \in [Reps -> Windows]
    /\ afterReset = FALSE
    /\ logging = TRUE
    /\ log = <<>>
    /\ startPos = PositionDefault
    /\ subst = FALSE
    /\ full = TRUE
    /\ since = "construction"
    /\ lastProbed = "-"
    /\ seeked = FALSE

SpecLog == InitLog /\ [][Next]_vars

(* ------------------------------ claims -------------------------------- *)

\* The result of getNextChunk in this state, given the answers in.
GNC(in) == GetNextChunkOn(This, playlist, in.switch_allowed, in)

\* Every argument and answer getNextChunk can be given in this state.
Ins == GetNextChunkInputs(This, playlist, logging)

\* q is p advanced by exactly one stage: init sent, then index sent, then
\* the following segment number.
OneStageAfter(p, q) ==
    \/ ~p.init_sent /\ q = [p EXCEPT !.init_sent = TRUE]
    \/ p.init_sent /\ ~p.index_sent /\ q = [p EXCEPT !.index_sent = TRUE]
    \/ p.init_sent /\ p.index_sent /\ q = [p EXCEPT !.number = p.number + 1]

\* The i-th unit delivered from startPos when its representation has an
\* init and an index segment and nothing is substituted.
ExpectedUnit(i) ==
    IF i = 1 THEN SegmentChunk("init", startPos.rep, startPos.number)
    ELSE IF i = 2 THEN SegmentChunk("index", startPos.rep, startPos.number)
    ELSE SegmentChunk("media", startPos.rep, startPos.number + (i - 3))

\* The units delivered so far are the expected ones, and the call that
\* delivers the third one (media segment n) leaves next at n+1 with both
\* stages sent.  kept(res) restricts the delivering calls considered.
InOrder(kept(_)) ==
    /\ \A i \in 1..Len(log) : log[i] = ExpectedUnit(i)
    /\ Len(log) = 2 =>
         \A in \in Ins :
            LET res == GNC(in)
            IN  res.ret # NullChunk /\ ~res.prep.gap /\ kept(res) =>
                  /\ res.ret = ExpectedUnit(3)
                  /\ res.t.next = [rep |-> startPos.rep,
                                   number |-> startPos.number + 1,
                                   init_sent |-> TRUE, index_sent |-> TRUE]

Always(res) == TRUE

OnStartRep(res) == res.entry.pos.rep = startPos.rep

\* C1 as stated: from a start position (R, n) whose representation has an
\* init and an index segment, with no segment number substituted, the
\* successful getNextChunk calls deliver R's init chunk, R's index chunk,
\* media segment n, then n+1, ..., and after media segment n next is at
\* n+1 with both stages sent.  (Nothing is said about representation
\* switches: a switch on the third call delivers the candidate's init chunk.)
C1_AsStated ==
    (IsValid(startPos) /\ full /\ ~subst) => InOrder(Always)

\* C1 amended: the same, as long as no call switches the representation
\* (every delivered entry is on R).
C1_InOrderWithoutSwitch ==
    (IsValid(startPos) /\ full /\ ~subst
       /\ \A i \in 1..Len(log) : log[i].rep = startPos.rep)
    => InOrder(OnStartRep)

\* C1 witness: init, index, media n and media n+1 of R were delivered in
\* this order from (R, n) and next is at n+2.
C1_Witness ==
    /\ IsValid(startPos) /\ full /\ ~subst
    /\ log = <<ExpectedUnit(1), ExpectedUnit(2), ExpectedUnit(3), ExpectedUnit(4)>>
    /\ next.number = startPos.number + 2
    /\ next.init_sent /\ next.index_sent

\* C2: whenever getNextChunk returns a chunk, current is the valid position
\* of the delivered entry; next equals current if the call notified
\* SegmentGap and is current advanced by exactly one stage otherwise.
C2_CurrentAndNext ==
    \A in \in Ins :
        LET res == GNC(in)
        IN  res.ret # NullChunk =>
              /\ IsValid(res.t.current)
              /\ res.t.current = res.entry.pos
              /\ res.ret = res.entry.chunk
              /\ IF HasEvent(res.events, "SegmentGap")
                 THEN res.t.next = res.t.current
                 ELSE OneStageAfter(res.t.current, res.t.next)

\* C2 witness: a call returns a chunk and notifies SegmentGap, leaving next
\* equal to current; another returns one without a gap.
C2_Witness ==
    /\ \E in \in Ins :
          LET res == GNC(in)
          IN  res.ret # NullChunk /\ HasEvent(res.events, "SegmentGap")
              /\ res.t.next = res.t.current
    /\ \E in \in Ins :
          LET res == GNC(in)
          IN  res.ret # NullChunk /\ ~HasEvent(res.events, "SegmentGap")
              /\ res.t.next.number = res.t.current.number + 1

\* C3: between two position changes the tracker never delivers the same
\* unit (representation, stage, segment number) twice.  Stated for the
\* sequences that stay on the representation they started on, which the
\* claim includes.
C3_NoDuplicateUnit ==
    (\A i \in 1..Len(log) : log[i].rep = startPos.rep) =>
        \A i \in 1..Len(log) : \A j \in 1..Len(log) :
            i # j => log[i] # log[j]

\* C4: the first getNextChunk that returns a chunk after construction or
\* reset() notifies no SegmentGap.
C4_NoGapOnFirstChunk ==
    since # "delivery" =>
        \A in \in Ins :
            LET res == GNC(in)
            IN  res.ret # NullChunk => ~HasEvent(res.events, "SegmentGap")

\* C4 witness: after a reset, the first delivered chunk has another segment
\* number than the one requested.
C4_Witness ==
    /\ since = "reset"
    /\ \E in \in Ins :
          LET res == GNC(in)
          IN  res.ret # NullChunk /\ res.entry.pos.number # next.number

\* C5: a call whose entry is on another representation than next notifies
\* exactly one RepresentationSwitch(next's representation, the entry's), and
\* notifies it first.
C5_OneSwitchEventFirst ==
    \A in \in Ins :
        LET res == GNC(in)
        IN  EntryIsValid(res.entry) /\ res.entry.pos.rep # next.rep =>
              /\ CountEvent(res.events, "RepresentationSwitch") = 1
              /\ res.events[1] =
                   RepresentationSwitchEvent(next.rep, res.entry.pos.rep)

\* C5 witness: a mid-stream call delivers a chunk of another representation
\* and also notifies FormatChange and SegmentChange.
C5_Witness ==
    /\ IsValid(current)
    /\ \E in \in Ins :
          LET res == GNC(in)
          IN  /\ res.ret # NullChunk
              /\ res.entry.pos.rep # next.rep
              /\ HasEvent(res.events, "FormatChange")
              /\ HasEvent(res.events, "SegmentChange")

\* The init and index answers of a representation, whatever the code reads.
AllStageCases == [init : BOOLEAN, index : BOOLEAN]

\* C6: if the valid position passed to prepareChunk has init_sent or
\* index_sent false, or the adaptation set is not segment-aligned, the
\* prepared entry is on the position's representation, whatever
\* switch_allowed and the adaptation logic's answer are; and getNextChunk
\* leaves next on its representation while the stages are not both sent.
C6_NoSwitchBeforeStagesSent ==
    IsValid(next) =>
      /\ \A sc \in AllSwitchCases(playlist) :
           (~next.init_sent \/ ~next.index_sent \/ ~sc.aligned) =>
             \A st \in AllStageCases : \A ck \in ChunkCases :
                LET prep == PrepareChunk(sc.switch_allowed, next, playlist,
                                         Answers(sc, st, ck))
                IN  EntryIsValid(prep.entry) => prep.entry.pos.rep = next.rep
      /\ (~next.init_sent \/ ~next.index_sent) =>
           \A in \in Ins : GNC(in).t.next.rep = next.rep

\* C6 witness: the index stage is not sent, the switch is asked for, and the
\* adaptation logic proposes a representation the tracker would switch to
\* were both stages sent; the entry prepared stays on next's representation.
C6_Witness ==
    /\ IsValid(next) /\ next.init_sent /\ ~next.index_sent
    /\ \E sc \in AllSwitchCases(playlist) : \E st \in AllStageCases :
         \E ck \in ChunkCases :
          LET in == Answers(sc, st, ck)
              sent == [next EXCEPT !.index_sent = TRUE]
          IN  /\ sc.switch_allowed /\ sc.aligned
              /\ sc.cand \notin {NullRep, next.rep}
              /\ PrepareChunk(TRUE, sent, playlist, in).entry.pos.rep = sc.cand
              /\ EntryIsValid(PrepareChunk(TRUE, next, playlist, in).entry)
              /\ PrepareChunk(TRUE, next, playlist, in).entry.pos.rep = next.rep

\* The switch cases in which the switch is allowed and the adaptation logic
\* proposes another representation than next's.
ProposedSwitches ==
    {sc \in AllSwitchCases(playlist) :
        /\ sc.switch_allowed /\ sc.aligned
        /\ sc.cand \notin {NullRep, next.rep}}

\* The candidate's playlist once it was refreshed as sc says.
Refreshed(sc) ==
    IF sc.refresh.needsUpdate /\ sc.refresh.updated
    THEN sc.refresh.win ELSE playlist[sc.cand]

FirstTranslation(sc) ==
    TranslateSegmentNumber(playlist[sc.cand], sc.cand, next.number, next.rep)

\* The translated number after the one retry.
Translation(sc) ==
    IF FirstTranslation(sc) # UINT64_MAX THEN FirstTranslation(sc)
    ELSE TranslateSegmentNumber(Refreshed(sc), sc.cand, next.number, next.rep)

\* C7: when the switch is allowed and another representation is proposed,
\* the position is kept if the candidate's translateSegmentNumber still
\* gives the sentinel after the one retry or its getMinAheadTime of the
\* translated number is 0; otherwise it becomes (candidate, translated
\* number) with both stage flags false.
C7_SwitchAbandoned ==
    (IsValid(next) /\ next.init_sent /\ next.index_sent) =>
      \A sc \in ProposedSwitches :
         LET sw == Switch(sc.switch_allowed, next, playlist,
                          Answers(sc, [init |-> FALSE, index |-> FALSE],
                                  NoAnswers.chunk))
             abandoned ==
                \/ Translation(sc) = UINT64_MAX
                \/ GetMinAheadTime(Refreshed(sc), sc.cand, Translation(sc)) = 0
         IN  sw.pos = IF abandoned THEN next
                      ELSE [rep |-> sc.cand, number |-> Translation(sc),
                            init_sent |-> FALSE, index_sent |-> FALSE]

\* C7 witness: one proposed switch is abandoned because the translation is
\* still the sentinel after the refresh and the retry, another because the
\* retried translation leaves no time ahead.
C7_Witness ==
    /\ IsValid(next) /\ next.init_sent /\ next.index_sent
    /\ \E sc \in ProposedSwitches :
          /\ sc.refresh.needsUpdate /\ sc.refresh.updated
          /\ Translation(sc) = UINT64_MAX
    /\ \E sc \in ProposedSwitches :
          /\ FirstTranslation(sc) = UINT64_MAX
          /\ Translation(sc) # UINT64_MAX
          /\ GetMinAheadTime(Refreshed(sc), sc.cand, Translation(sc)) = 0

C9_UnsupportedUntilReset ==
    format = Unsupported =>
      /\ \A in \in Ins :
            LET res == GNC(in)
            IN  /\ res.ret = NullChunk
                /\ res.t.format = Unsupported
                /\ EntryIsValid(res.entry) =>
                      /\ res.t.current = res.entry.pos
                      /\ res.t.next = res.entry.pos
      /\ \A in \in SetPositionInputs :
            SetPositionOn(This, in.pos, in.restarted).t.format = Unsupported
      /\ \A in \in SetPositionByTimeInputs(This, playlist) :
            SetPositionByTimeOn(This, playlist, in.time, in.restarted,
                                in.tryonly, in).t.format = Unsupported
      /\ \A in \in SetStartPositionInputs(This, playlist) :
            SetStartPositionOn(This, playlist, in).t.format = Unsupported
      /\ ResetOn(This).t.format # Unsupported

\* C9 witness: the format is Unsupported and a call prepares a valid entry
\* at another position than current, returns null and moves current to it.
C9_Witness ==
    /\ format = Unsupported
    /\ \E in \in Ins :
          LET res == GNC(in)
          IN  /\ EntryIsValid(res.entry)
              /\ res.ret = NullChunk
              /\ res.t.current # current
              /\ res.t.current = res.entry.pos

\* C10: after reset() current, next, the queue, the format and initializing
\* are those of a constructed tracker, and setStartPosition followed by one
\* getNextChunk notifies the same events, under the same answers, as on a
\* constructed tracker.
C10_ResetLikeConstructed ==
    afterReset =>
      /\ This = Constructed
      /\ \A s \in SetStartPositionInputs(Constructed, playlist) :
            LET a == SetStartPositionOn(This, playlist, s)
                b == SetStartPositionOn(Constructed, playlist, s)
            IN  \A g \in GetNextChunkInputs(b.t, b.playlist, FALSE) :
                   LET x == GetNextChunkOn(a.t, a.playlist, g.switch_allowed, g)
                       y == GetNextChunkOn(b.t, b.playlist, g.switch_allowed, g)
                   IN  /\ a.events \o x.events = b.events \o y.events
                       /\ x.ret = y.ret

\* C10 witness: reset() was just called, and setStartPosition followed by
\* getNextChunk then delivers a chunk, notifying RepresentationUpdated,
\* RepresentationSwitch and SegmentChange.
C10_Witness ==
    /\ afterReset
    /\ \E s \in SetStartPositionInputs(This, playlist) :
          LET a == SetStartPositionOn(This, playlist, s)
          IN  \E g \in GetNextChunkInputs(a.t, a.playlist, FALSE) :
                 LET x == GetNextChunkOn(a.t, a.playlist, g.switch_allowed, g)
                 IN  /\ x.ret # NullChunk
                     /\ HasEvent(a.events, "RepresentationUpdated")
                     /\ HasEvent(x.events, "RepresentationSwitch")
                     /\ HasEvent(x.events, "SegmentChange")

\* C11: in every reachable state the queue of prepared entries holds at
\* most one entry.
C11_QueueAtMostOne == Len(chunkssequence) <= 1

\* C11 witness: an entry is queued (withheld, the format being Unsupported)
\* and getNextChunk is called again.
C11_Witness ==
    /\ Len(chunkssequence) = 1
    /\ \E in \in Ins : Len(GNC(in).t.chunkssequence) = 1

\* The positions of a representation or of none, with any flags.
Numbers == 0..(MaxSeg + NumberShift + 2)

AllPositions ==
    [rep : Reps \cup {NullRep}, number : Numbers \cup {UINT64_MAX - 1, UINT64_MAX},
     init_sent : BOOLEAN, index_sent : BOOLEAN]

\* C12: on a valid Position(rep, start) the first advance sets only
\* init_sent, the second only index_sent, the third gives start+1 and the
\* fourth start+2 with both flags true; no advance clears a flag, changes
\* the representation or decreases the number, and the advance of an
\* invalid position changes nothing.  The second conjunct says it of the
\* positions the tracker holds.
C12_Advance ==
    /\ \A r \in Reps : \A start \in Numbers :
          /\ Incr(Position(r, start))
               = [rep |-> r, number |-> start,
                  init_sent |-> TRUE, index_sent |-> FALSE]
          /\ Incr(Incr(Position(r, start)))
               = [rep |-> r, number |-> start,
                  init_sent |-> TRUE, index_sent |-> TRUE]
          /\ Incr(Incr(Incr(Position(r, start))))
               = [rep |-> r, number |-> start + 1,
                  init_sent |-> TRUE, index_sent |-> TRUE]
          /\ Incr(Incr(Incr(Incr(Position(r, start)))))
               = [rep |-> r, number |-> start + 2,
                  init_sent |-> TRUE, index_sent |-> TRUE]
    /\ \A p \in AllPositions \cup {current, next} :
          /\ p.init_sent => Incr(p).init_sent
          /\ p.index_sent => Incr(p).index_sent
          /\ Incr(p).rep = p.rep
          /\ Incr(p).number >= p.number
          /\ ~IsValid(p) => Incr(p) = p

\* C12 witness: the tracker delivered the media segment at current and
\* advanced next to the following number, both flags kept.
C12_Witness ==
    /\ IsValid(current) /\ current.init_sent /\ current.index_sent
    /\ next = Incr(current)
    /\ next.number = current.number + 1
    /\ next.init_sent /\ next.index_sent
    /\ next \in AllPositions

\* The representation setPositionByTime seeks on, given the answers in.
SeekRep(in) == IF IsValid(current) THEN current.rep ELSE in.rep

\* Its playlist once refreshed as in says.
SeekWindow(in) ==
    IF in.refresh.needsUpdate /\ in.refresh.updated THEN in.refresh.win
    ELSE playlist[SeekRep(in)]

\* setPositionByTime finds a representation, refreshes it if needed and
\* maps the time to a segment number.
Mapped(in) ==
    /\ SeekRep(in) # NullRep
    /\ ~(in.refresh.needsUpdate /\ ~in.refresh.updated)
    /\ GetSegmentNumberByTime(SeekWindow(in), SeekRep(in), in.time)
         # UINT64_MAX

SeekOf(in, tryonly) ==
    SetPositionByTimeOn(This, playlist, in.time, in.restarted, tryonly, in)

\* C13: setPositionByTime returns true exactly when a representation is
\* available, any needed refresh succeeded and the time maps to a segment
\* number, whatever try_only is; with try_only it leaves current, next, the
\* queue and initializing as they are and notifies no PositionChange.
C13_SeekResult ==
    \A in \in SetPositionByTimeInputs(This, playlist) :
        /\ SeekOf(in, TRUE).result = Mapped(in)
        /\ SeekOf(in, FALSE).result = Mapped(in)
        /\ SeekOf(in, TRUE).t = This
        /\ ~HasEvent(SeekOf(in, TRUE).events, "PositionChange")
        /\ SeekOf(in, TRUE).released = <<>>

\* C13 witness: mid-stream, a try_only seek finds the segment of a time
\* that is not the segment next is at.
C13_Witness ==
    /\ IsValid(current) /\ IsValid(next)
    /\ \E in \in SetPositionByTimeInputs(This, playlist) :
          /\ in.tryonly /\ Mapped(in)
          /\ SeekOf(in, TRUE).result
          /\ SeekOf(in, FALSE).t.next # next
          /\ SeekOf(in, TRUE).t.next = next

\* The tracker a committed seek to position pos leaves behind, and what it
\* notifies and releases.
Committed(res, pos) ==
    /\ ~IsValid(res.t.current)
    /\ res.t.next = pos
    /\ ~res.t.next.init_sent /\ ~res.t.next.index_sent
    /\ res.t.chunkssequence = <<>>
    /\ res.released = Released(chunkssequence)
    /\ CountEvent(res.events, "PositionChange") = 1

\* The position setPositionByTime resolves the time of in to.
SeekPosition(in) ==
    Position(SeekRep(in),
             GetSegmentNumberByTime(SeekWindow(in), SeekRep(in), in.time))

\* C14: a committed seek (setPosition, or setPositionByTime returning true
\* without try_only) leaves current invalid, next at the resolved position
\* with both flags false and the queue empty, its chunk released, and
\* notifies exactly one PositionChange; the next getNextChunk that delivers
\* a chunk notifies RepresentationSwitch and neither SegmentGap nor
\* Discontinuity.
C14_CommittedSeek ==
    /\ \A in \in SetPositionInputs :
          Committed(SetPositionOn(This, in.pos, in.restarted), in.pos)
    /\ \A in \in SetPositionByTimeInputs(This, playlist) :
          SeekOf(in, FALSE).result
            => Committed(SeekOf(in, FALSE), SeekPosition(in))
    /\ seeked =>
          \A in \in Ins :
              GNC(in).ret # NullChunk
                => /\ HasEvent(GNC(in).events, "RepresentationSwitch")
                   /\ ~HasEvent(GNC(in).events, "SegmentGap")
                   /\ ~HasEvent(GNC(in).events, "Discontinuity")

\* C14 witness: after a committed seek that did not restart, a chunk with
\* its discontinuity flag set is delivered at another number than the one
\* sought.
C14_Witness ==
    /\ seeked /\ ~initializing /\ IsValid(next)
    /\ \E in \in Ins :
          /\ GNC(in).ret # NullChunk
          /\ in.chunk.discontinuity
          /\ GNC(in).entry.pos.number # next.number
          /\ HasEvent(GNC(in).events, "RepresentationSwitch")

\* setPositionByTime has no representation to seek on, or its refresh fails.
SeekFails(in) ==
    \/ SeekRep(in) = NullRep
    \/ in.refresh.needsUpdate /\ ~in.refresh.updated

\* C15: when no representation is available, or the representation needs
\* an update and the refresh fails, setPositionByTime returns false,
\* notifies neither RepresentationUpdated nor PositionChange and leaves
\* current, next, the queue and initializing as they are.
C15_SeekFailure ==
    \A in \in SetPositionByTimeInputs(This, playlist) :
        SeekFails(in)
          => /\ ~SeekOf(in, in.tryonly).result
             /\ ~HasEvent(SeekOf(in, in.tryonly).events, "RepresentationUpdated")
             /\ ~HasEvent(SeekOf(in, in.tryonly).events, "PositionChange")
             /\ SeekOf(in, in.tryonly).t = This
             /\ SeekOf(in, in.tryonly).released = <<>>
             /\ SeekOf(in, in.tryonly).playlist = playlist

\* C15 witness: mid-stream with a chunk queued, a committing seek to a time
\* the representation maps fails on the refresh.
C15_Witness ==
    /\ IsValid(current) /\ chunkssequence # <<>>
    /\ \E in \in SetPositionByTimeInputs(This, playlist) :
          /\ ~in.tryonly
          /\ in.refresh.needsUpdate /\ ~in.refresh.updated
          /\ GetSegmentNumberByTime(playlist[SeekRep(in)], SeekRep(in), in.time)
               # UINT64_MAX
          /\ ~SeekOf(in, FALSE).result

\* getNextChunk is called on a valid next with an empty queue and
\* prepareChunk gives no valid entry.
PreparationFails(in) ==
    /\ IsValid(next)
    /\ chunkssequence = <<>>
    /\ ~EntryIsValid(GNC(in).prep.entry)

\* C16: when the preparation of the next chunk fails (no representation,
\* no media segment, or the chunk does not open), getNextChunk returns
\* null, notifies nothing, leaves current, next, format and initializing as
\* they are and the queue empty, so that a later call prepares afresh from
\* the same position.
C16_PreparationFailure ==
    \A in \in Ins :
        PreparationFails(in)
          => /\ GNC(in).ret = NullChunk
             /\ GNC(in).events = <<>>
             /\ GNC(in).t = This
             /\ GNC(in).t.chunkssequence = <<>>
             /\ GNC(in).released = <<>>

\* C16 witness: mid-stream, one preparation fails because the chunk does
\* not open and another because there is no segment to open.
C16_Witness ==
    /\ IsValid(current) /\ initializing = FALSE
    /\ \E in \in Ins :
          /\ PreparationFails(in) /\ ~in.chunk.opens
          /\ GNC(in).ret = NullChunk
    /\ \E in \in Ins :
          /\ PreparationFails(in) /\ in.chunk.opens
          /\ GNC(in).ret = NullChunk

\* C17: getNextChunk notifies Discontinuity exactly when it returns a chunk
\* whose discontinuity flag is set, current was valid before the call and
\* the numbers of current and next differed before the call; so there is
\* none for the first chunk after construction, reset or a seek, none for
\* the chunk that follows an init or index chunk, and none for the chunk
\* that follows a gap (which leaves next on current).
C17_DiscontinuityExactly ==
    \A in \in Ins :
        /\ HasEvent(GNC(in).events, "Discontinuity")
             <=> /\ GNC(in).ret # NullChunk
                 /\ in.chunk.discontinuity
                 /\ IsValid(current)
                 /\ current.number # next.number
        /\ since \in {"construction", "reset"}
             => ~HasEvent(GNC(in).events, "Discontinuity")
        /\ seeked => ~HasEvent(GNC(in).events, "Discontinuity")
        /\ (since = "delivery" /\ ~seeked /\ IsValid(current)
              /\ ~(current.init_sent /\ current.index_sent))
             => ~HasEvent(GNC(in).events, "Discontinuity")
        /\ (IsValid(current) /\ next = current)
             => ~HasEvent(GNC(in).events, "Discontinuity")
        /\ CountEvent(GNC(in).events, "Discontinuity") <= 1

\* C17 witness: a media segment was delivered, and the following one is
\* delivered with its discontinuity flag set and a Discontinuity event.
C17_Witness ==
    /\ IsValid(current) /\ current.init_sent /\ current.index_sent
    /\ since = "delivery"
    /\ \E in \in Ins :
          /\ in.chunk.discontinuity
          /\ GNC(in).ret # NullChunk
          /\ HasEvent(GNC(in).events, "Discontinuity")

\* The format getNextChunk resolves for the chunk of in: its declared or
\* probed format, else the format of its content type.
ResolvedFormat(in) ==
    IF in.chunk.fc.declared # Unknown THEN in.chunk.fc.declared
    ELSE IF in.chunk.fc.probe # Unknown THEN in.chunk.fc.probe
    ELSE in.chunk.fc.mime

\* C18: within getNextChunk the recorded format is modified only when the
\* chunk's resolved format is not Unknown and differs from the recorded
\* one, and every modification comes with a FormatChange event of the same
\* call that carries the new recorded format.
C18_NoSilentFormatChange ==
    \A in \in Ins :
        GNC(in).t.format # format
          => /\ ResolvedFormat(in) # Unknown
             /\ ResolvedFormat(in) # format
             /\ \E i \in 1..Len(GNC(in).events) :
                   GNC(in).events[i] = FormatChangedEvent(GNC(in).t.format)

\* The chunks the queue q owns.
Owned(q) ==
    IF q # <<>> /\ EntryIsValid(Head(q)) THEN <<Head(q).chunk>> ELSE <<>>

\* The chunk prepareChunk opened in a getNextChunk call, and the chunk the
\* call handed to its caller.
OpenedBy(res) ==
    IF EntryIsValid(res.prep.entry) THEN <<res.prep.entry.chunk>> ELSE <<>>

HandedBy(res) == IF res.ret # NullChunk THEN <<res.ret>> ELSE <<>>

\* C19: every chunk prepareChunk opens is handed to the caller by one
\* getNextChunk return or released once by the tracker, never both nor
\* neither.  Call by call: the chunks owned before a getNextChunk and the
\* one it opens are those it hands over, those it releases and those the
\* queue owns after; a returned chunk is no longer queued; a chunk withheld
\* because the format is Unsupported stays queued, not released; setPosition,
\* a committed setPositionByTime and reset (the destructor's only step)
\* release what the queue owns and leave it empty; the other operations
\* leave the queue alone.
C19_ChunkOwnership ==
    /\ \A in \in Ins :
          /\ Owned(chunkssequence) \o OpenedBy(GNC(in))
               = HandedBy(GNC(in)) \o GNC(in).released
                   \o Owned(GNC(in).t.chunkssequence)
          /\ Len(GNC(in).t.chunkssequence)
               = Len(Owned(GNC(in).t.chunkssequence))
          /\ GNC(in).ret # NullChunk
               => /\ GNC(in).t.chunkssequence = <<>>
                  /\ GNC(in).released = <<>>
          /\ (EntryIsValid(GNC(in).entry) /\ format = Unsupported)
               => /\ GNC(in).ret = NullChunk
                  /\ GNC(in).released = <<>>
                  /\ GNC(in).t.chunkssequence = <<GNC(in).entry>>
    /\ \A in \in SetPositionInputs :
          /\ SetPositionOn(This, in.pos, in.restarted).released
               = Owned(chunkssequence)
          /\ SetPositionOn(This, in.pos, in.restarted).t.chunkssequence = <<>>
    /\ \A in \in SetPositionByTimeInputs(This, playlist) :
          SeekOf(in, in.tryonly).released
              \o Owned(SeekOf(in, in.tryonly).t.chunkssequence)
            = Owned(chunkssequence)
    /\ ResetOn(This).released = Owned(chunkssequence)
    /\ ResetOn(This).t.chunkssequence = <<>>
    /\ \A in \in SetStartPositionInputs(This, playlist) :
          SetStartPositionOn(This, playlist, in).t.chunkssequence
            = chunkssequence

\* C19 witness: the queue owns a chunk withheld for the Unsupported format;
\* another getNextChunk keeps it and reset releases it.
C19_Witness ==
    /\ Len(Owned(chunkssequence)) = 1
    /\ format = Unsupported
    /\ ResetOn(This).released = <<Head(chunkssequence).chunk>>
    /\ \E in \in Ins : Owned(GNC(in).t.chunkssequence) = Owned(chunkssequence)

\* C20 as stated: a getNextChunk call that notifies RepresentationSwitch
\* notifies no SegmentGap and always leaves next one stage after the
\* position of the entry it handled.
C20_AsStated ==
    \A in \in Ins :
        HasEvent(GNC(in).events, "RepresentationSwitch")
          => /\ ~HasEvent(GNC(in).events, "SegmentGap")
             /\ OneStageAfter(GNC(in).entry.pos, GNC(in).t.next)

\* C20: a getNextChunk call that notifies RepresentationSwitch notifies no
\* SegmentGap and sets initializing for the rest of the call; if it returns
\* a chunk, next is one stage after the delivered position, also when the
\* delivered number is not the requested one; if it withholds the chunk
\* (format Unsupported), next is left on the prepared position.
C20_SwitchNoGap ==
    \A in \in Ins :
        HasEvent(GNC(in).events, "RepresentationSwitch")
          => /\ ~HasEvent(GNC(in).events, "SegmentGap")
             /\ GNC(in).ret # NullChunk
                  => /\ OneStageAfter(GNC(in).entry.pos, GNC(in).t.next)
                     /\ GNC(in).t.current = GNC(in).entry.pos
                     /\ ~GNC(in).t.initializing
             /\ GNC(in).ret = NullChunk
                  => /\ format = Unsupported
                     /\ GNC(in).t.next = GNC(in).entry.pos
                     /\ GNC(in).t.initializing

\* C20 witness: mid-stream and not initializing, a switch delivers a chunk
\* of another representation at another number than the requested one.
C20_Witness ==
    /\ IsValid(current) /\ ~initializing
    /\ \E in \in Ins :
          /\ HasEvent(GNC(in).events, "RepresentationSwitch")
          /\ GNC(in).ret # NullChunk
          /\ GNC(in).entry.pos.rep # next.rep
          /\ GNC(in).entry.pos.number # next.number
          /\ OneStageAfter(GNC(in).entry.pos, GNC(in).t.next)

=============================================================================
